---- MODULE Spec2Model ----
(***************************************************************************)
(* tracing-setup: init_tracing(config) selects one of four sink topologies *)
(* (console, file, console+file, live Jaeger), installs it in the          *)
(* process-wide subscriber slot and, for the file-backed modes, returns    *)
(* the WorkerGuard of the non-blocking file writer.                        *)
(*                                                                         *)
(* Strings that the program parses or formats are modelled structurally:   *)
(* a filter string is the sequence of its comma-separated segments, a      *)
(* segment being "lhs" or "lhs=rhs"; a log file name is the pair of its    *)
(* directory and its timestamp.                                            *)
(***************************************************************************)
EXTENDS Integers, Sequences, FiniteSets, TLC

VARIABLES
    feature_jaeger,   \* build configuration: cargo feature "jaeger"
    env,              \* the RUST_LOG environment variable (Option<String>)
    clock,            \* local wall clock at its last reading, in seconds
    jaeger_up,        \* a listener accepts TCP connections on {hostname}:16686
    files,            \* path -> [exists, content]
    global_default,   \* tracing's process-wide subscriber slot
    tracer_provider,  \* opentelemetry's global tracer provider (set by install_simple)
    call,             \* the init_tracing call in progress, or the last one
    ncalls,           \* init_tracing calls started so far
    nwrites,          \* successful writes of the subscriber slot so far
    stdout,           \* messages init_tracing has printed
    writer,           \* the non-blocking writer behind the installed sink
    emitted,          \* events emitted through the installed sink so far
    console,          \* events passed to the stdout fmt layer
    file_passed,      \* events passed to the file fmt layer
    exported,         \* events passed to the Jaeger (opentelemetry) layer
    pre_release,      \* events the file writer accepted before its guard was released
    filter_call       \* the last call of the public env_filter: its arguments and result

vars == << feature_jaeger, env, clock, jaeger_up, files, global_default,
           tracer_provider, call, ncalls, nwrites, stdout, writer, emitted,
           console, file_passed, exported, pre_release, filter_call >>

----------------------------------------------------------------------------
(* Bounds of the model *)

MaxCalls == 2        \* init_tracing calls per process
MaxEvents == 2       \* events emitted after initialization
MaxClock == 1        \* the clock runs over seconds 0..MaxClock
QueueCap == 1        \* capacity of the writer's channel (buffered_lines_limit)
MaxDirectives == 2   \* segments of a filter string

----------------------------------------------------------------------------
(* Option<T> *)

None == [some |-> FALSE, val |-> <<>>]
Some(x) == [some |-> TRUE, val |-> x]

----------------------------------------------------------------------------
(* Filter strings and tracing_subscriber::EnvFilter *)

NoEq == "<no '='>"
NoTarget == "<no target>"

Seg(l, r) == [lhs |-> l, rhs |-> r]

\* the segments filter strings are drawn from
Segments ==
    {Seg(w, NoEq) : w \in {"warn", "debug", "DEBUG", "core"}}
        \cup {Seg("core", r) : r \in {"trace", "bogus"}}
        \cup {Seg("app", "warn")}

RECURSIVE SeqsUpTo(_, _)
SeqsUpTo(S, n) ==
    IF n = 0 THEN {<<>>}
    ELSE LET shorter == SeqsUpTo(S, n - 1)
         IN  shorter \cup {Append(s, x) : s \in {t \in shorter : Len(t) = n - 1}, x \in S}

FilterStrings == SeqsUpTo(Segments, MaxDirectives)

\* LevelFilter::from_str, case-insensitive; -1 for a word that is no level
ParseLevel(w) ==
    CASE w \in {"off", "OFF"} -> 0
      [] w \in {"error", "ERROR"} -> 1
      [] w \in {"warn", "WARN"} -> 2
      [] w \in {"info", "INFO"} -> 3
      [] w \in {"debug", "DEBUG"} -> 4
      [] w \in {"trace", "TRACE"} -> 5
      [] OTHER -> -1

\* Display of LevelFilter
LevelName(n) ==
    CASE n = 0 -> "off"
      [] n = 1 -> "error"
      [] n = 2 -> "warn"
      [] n = 3 -> "info"
      [] n = 4 -> "debug"
      [] OTHER -> "trace"

ERROR == ParseLevel("error")
WARN == ParseLevel("warn")
DEBUG == ParseLevel("debug")
TRACE == ParseLevel("trace")

Invalid == [target |-> NoTarget, level |-> -1]

\* Directive::from_str: "level", "target" (level TRACE) or "target=level"
ParseDirective(seg) ==
    IF seg.rhs = NoEq
    THEN IF ParseLevel(seg.lhs) >= 0
         THEN [target |-> NoTarget, level |-> ParseLevel(seg.lhs)]
         ELSE [target |-> seg.lhs, level |-> TRACE]
    ELSE IF ParseLevel(seg.rhs) >= 0
         THEN [target |-> seg.lhs, level |-> ParseLevel(seg.rhs)]
         ELSE Invalid

\* length of a target, and its rank among the targets of that length
TargetLen(t) == CASE t = NoTarget -> 0 [] t = "app" -> 3 [] t = "core" -> 4 [] OTHER -> 5
TargetLex(t) == CASE t = NoTarget -> 0 [] t = "app" -> 1 [] t = "core" -> 2 [] OTHER -> 3

\* Ord for StaticDirective, reversed: a comes before b in a DirectiveSet
MoreSpecific(a, b) ==
    \/ TargetLen(a.target) > TargetLen(b.target)
    \/ /\ TargetLen(a.target) = TargetLen(b.target)
       /\ TargetLex(a.target) > TargetLex(b.target)

\* DirectiveSet::add: keep the set ordered, most specific first; a directive
\* for a target already present replaces the earlier one
RECURSIVE DirectiveSetAdd(_, _)
DirectiveSetAdd(ds, d) ==
    IF ds = <<>> THEN <<d>>
    ELSE IF Head(ds).target = d.target THEN <<d>> \o Tail(ds)
    ELSE IF MoreSpecific(d, Head(ds)) THEN <<d>> \o ds
    ELSE <<Head(ds)>> \o DirectiveSetAdd(Tail(ds), d)

\* Builder::parse_lossy: directives that do not parse are ignored
RECURSIVE ParseLossyFrom(_, _)
ParseLossyFrom(s, ds) ==
    IF s = <<>> THEN ds
    ELSE LET d == ParseDirective(Head(s))
         IN  ParseLossyFrom(Tail(s), IF d = Invalid THEN ds ELSE DirectiveSetAdd(ds, d))

\* EnvFilter::new / from_default_env: default directive "error" when none is given
ParseLossy(s) ==
    LET ds == ParseLossyFrom(s, <<>>)
    IN  IF ds = <<>> THEN <<[target |-> NoTarget, level |-> ERROR]>> ELSE ds

\* Display of a directive
DisplayDirective(d) ==
    IF d.target = NoTarget THEN Seg(LevelName(d.level), NoEq)
    ELSE Seg(d.target, LevelName(d.level))

\* Display of EnvFilter: its directives in set order, joined by ","
DisplayFilter(ds) == [i \in 1..Len(ds) |-> DisplayDirective(ds[i])]

\* EnvFilter::from_default_env(): RUST_LOG, or nothing when it is unset
from_default_env(e) == ParseLossy(IF e.some THEN e.val ELSE <<>>)

\* a faulty variant: the environment variable's text handed back as it is
env_filter_verbatim(config, e) ==
    IF config.env_filter.some THEN config.env_filter.val
    ELSE IF e.some THEN e.val
    ELSE <<Seg("error", NoEq)>>

\* env_filter(config)
env_filter(config, e) ==
    IF config.env_filter.some THEN config.env_filter.val
    ELSE DisplayFilter(from_default_env(e))

\* EnvFilter::enabled for an event: the most specific directive whose target
\* matches decides
RECURSIVE DirectiveEnabled(_, _)
DirectiveEnabled(ds, ev) ==
    IF ds = <<>> THEN FALSE
    ELSE IF Head(ds).target \in {NoTarget, ev.target} THEN ev.level <= Head(ds).level
    ELSE DirectiveEnabled(Tail(ds), ev)

Enabled(filter, ev) == DirectiveEnabled(ParseLossy(filter), ev)

----------------------------------------------------------------------------
(* Configurations *)

\* enum TracingMode: the JaegerLive variant exists only with the feature
TracingMode(feature) ==
    {"Console", "File", "ConsoleAndFile"}
        \cup (IF feature THEN {"JaegerLive"} ELSE {})

DEFAULT_SPAN_EVENTS == "CLOSE"
DEFAULT_JAEGER_PORT == 6831
JAEGER_UI_PORT == 16686

LogDirs == {"./logs"}
Hostnames == {"localhost"}
ConfigFilters == {None, Some(<<Seg("warn", NoEq)>>)}
EnvChoices == {Some(<<Seg("debug", NoEq), Seg("core", "trace")>>)}

\* TracingConfig::default()
DefaultConfig ==
    [tracing_mode |-> "Console", env_filter |-> None, json |-> FALSE,
     log_dir |-> "./logs", ansi_file |-> FALSE, lossy_file |-> TRUE,
     ansi_console |-> TRUE, jaeger_hostname |-> "localhost"]

\* struct TracingConfig: the configurations init_tracing is called with. A
\* field the mode's arm never reads is left at its default.
TracingConfig(feature) ==
    [tracing_mode : {"Console"}, env_filter : ConfigFilters, json : BOOLEAN,
     log_dir : {DefaultConfig.log_dir}, ansi_file : {DefaultConfig.ansi_file},
     lossy_file : {DefaultConfig.lossy_file}, ansi_console : {TRUE},
     jaeger_hostname : {DefaultConfig.jaeger_hostname}]
    \cup
    [tracing_mode : {"File", "ConsoleAndFile"}, env_filter : ConfigFilters, json : BOOLEAN,
     log_dir : LogDirs, ansi_file : {FALSE}, lossy_file : BOOLEAN, ansi_console : {TRUE},
     jaeger_hostname : {DefaultConfig.jaeger_hostname}]
    \cup
    [tracing_mode : TracingMode(feature) \ {"Console", "File", "ConsoleAndFile"},
     env_filter : ConfigFilters, json : {DefaultConfig.json},
     log_dir : {DefaultConfig.log_dir}, ansi_file : {DefaultConfig.ansi_file},
     lossy_file : {DefaultConfig.lossy_file}, ansi_console : {DefaultConfig.ansi_console},
     jaeger_hostname : Hostnames]

\* events the application emits: a target and a level
EventKinds == {[target |-> "core", level |-> DEBUG], [target |-> "app", level |-> WARN]}

----------------------------------------------------------------------------
(* Files *)

\* create_log_filename: "{log_dir}/log_{%m-%d-%Y_%H-%M-%S}.txt"
create_log_filename(log_dir, now) == [dir |-> log_dir, stamp |-> now]

Paths == [dir : LogDirs, stamp : 0..MaxClock]

NoFile == [exists |-> FALSE, content |-> <<>>]
Hole == 0

\* a write of one line at a handle's offset; a gap left by a truncation reads as a hole
WriteAt(content, offset, line) ==
    IF offset >= Len(content)
    THEN content \o [i \in 1..(offset - Len(content)) |-> Hole] \o <<line>>
    ELSE [content EXCEPT ![offset + 1] = line]

Lines(content) == {content[i] : i \in 1..Len(content)} \ {Hole}

----------------------------------------------------------------------------
(* Subscribers: a stack of layers over the registry *)

\* "{hostname}:{port}"
Endpoint(hostname, port) == [host |-> hostname, port |-> port]

NoEndpoint == Endpoint("", 0)

Layer(kind, dest, json, ansi, span_events, directives, endpoint) ==
    [kind |-> kind, dest |-> dest, json |-> json, ansi |-> ansi,
     span_events |-> span_events, directives |-> directives, endpoint |-> endpoint]

FmtLayer(dest, json, ansi, span_events) ==
    Layer("fmt", dest, json, ansi, span_events, <<>>, NoEndpoint)
EnvFilterLayer(directives) ==
    Layer("env_filter", "", FALSE, FALSE, "", directives, NoEndpoint)
OpenTelemetryLayer(endpoint) ==
    Layer("opentelemetry", "jaeger_agent", FALSE, FALSE, "", <<>>, endpoint)

\* FmtSubscriber::builder() of configure_console_logging
ConsoleSubscriber(config, e) ==
    << FmtLayer("stdout", config.json, config.ansi_console, DEFAULT_SPAN_EVENTS),
       EnvFilterLayer(env_filter(config, e)) >>

\* FmtSubscriber::builder() of configure_file_logging
FileSubscriber(config, e) ==
    << FmtLayer("non_blocking", config.json, config.ansi_file, DEFAULT_SPAN_EVENTS),
       EnvFilterLayer(env_filter(config, e)) >>

\* a faulty variant: the combined registry without its EnvFilter layer
CombinedSubscriberUnfiltered(config, e) ==
    << FmtLayer("stdout", config.json, config.ansi_console, DEFAULT_SPAN_EVENTS),
       FmtLayer("non_blocking", config.json, config.ansi_file, DEFAULT_SPAN_EVENTS) >>

\* registry().with(stdout_layer).with(file_layer).with(EnvFilter) of
\* configure_combined_logging
CombinedSubscriber(config, e) ==
    << FmtLayer("stdout", config.json, config.ansi_console, DEFAULT_SPAN_EVENTS),
       FmtLayer("non_blocking", config.json, config.ansi_file, DEFAULT_SPAN_EVENTS),
       EnvFilterLayer(env_filter(config, e)) >>

\* registry().with(filter_layer).with(fmt_layer).with(jaeger_layer) of init_jaeger
JaegerSubscriber(config, e) ==
    << EnvFilterLayer(env_filter(config, e)),
       FmtLayer("stdout", FALSE, TRUE, "NONE"),
       OpenTelemetryLayer(Endpoint(config.jaeger_hostname, DEFAULT_JAEGER_PORT)) >>

LayersOf(sub) == {sub[i] : i \in 1..Len(sub)}

\* Layered::enabled: every layer of the stack must enable the event
SubscriberEnabled(sub, ev) ==
    \A l \in LayersOf(sub) : l.kind = "env_filter" => Enabled(l.directives, ev)

\* where an enabled event is written
Destinations(sub) == {l.dest : l \in {m \in LayersOf(sub) : m.kind # "env_filter"}}

NoSubscriber == [set |-> FALSE, by |-> 0, mode |-> "", subscriber |-> <<>>]

----------------------------------------------------------------------------
(* tracing_appender::non_blocking: channel, worker thread and WorkerGuard *)

Shutdown == 0 - 1

NoWriter ==
    [active |-> FALSE, id |-> 0, path |-> create_log_filename("", 0), offset |-> 0,
     lossy |-> FALSE, queue |-> <<>>, worker |-> "none", guard |-> "none",
     timed_out |-> FALSE, io_error |-> FALSE, clobbered |-> FALSE]

\* NonBlockingBuilder::default().lossy(lossy).finish(file)
NonBlockingFinish(id, path, lossy) ==
    [active |-> TRUE, id |-> id, path |-> path, offset |-> 0, lossy |-> lossy,
     queue |-> <<>>, worker |-> "running", guard |-> "held",
     timed_out |-> FALSE, io_error |-> FALSE, clobbered |-> FALSE]

----------------------------------------------------------------------------
(* The init_tracing call *)

NoCall ==
    [n |-> 0, mode |-> "", config |-> DefaultConfig, pc |-> "done", outcome |-> "none",
     panic |-> "", result |-> None, filename |-> create_log_filename("", 0),
     created |-> FALSE, slot_at_start |-> FALSE]

Running == call.pc # "done"

NoFilterCall == [called |-> FALSE, config |-> DefaultConfig, env |-> None, result |-> <<>>]

\* the call ends (config, taken by value, is dropped): by a panic, or by returning r
Panic(c, msg) ==
    [c EXCEPT !.pc = "done", !.outcome = "panicked", !.panic = msg,
              !.config = DefaultConfig]
Return(c, r) ==
    [c EXCEPT !.pc = "done", !.outcome = "returned", !.result = r,
              !.config = DefaultConfig]

\* the state in which a process starts: the environment variable is e, the
\* build has the jaeger feature or not
Start(e, features) ==
    /\ feature_jaeger \in features
    /\ env = e
    /\ clock = 0
    /\ jaeger_up = {}
    /\ files = [p \in Paths |-> NoFile]
    /\ global_default = NoSubscriber
    /\ tracer_provider = NoEndpoint
    /\ call = NoCall
    /\ ncalls = 0
    /\ nwrites = 0
    /\ stdout = {}
    /\ writer = NoWriter
    /\ emitted = <<>>
    /\ console = {}
    /\ file_passed = {}
    /\ exported = {}
    /\ pre_release = {}
    /\ filter_call = NoFilterCall

Init == \E e \in EnvChoices : Start(e, BOOLEAN)

----------------------------------------------------------------------------
(* tracing::subscriber::set_global_default *)

\* a faulty variant: a second install replaces the subscriber instead of failing
set_global_default_overwrite(slot, n, mode, sub) ==
    [ok |-> TRUE, slot |-> [set |-> TRUE, by |-> n, mode |-> mode, subscriber |-> sub]]

\* set_global_default(subscriber): Err when a global default is already set
set_global_default(slot, n, mode, sub) ==
    IF slot.set
    THEN [ok |-> FALSE, slot |-> slot]
    ELSE [ok |-> TRUE, slot |-> [set |-> TRUE, by |-> n, mode |-> mode, subscriber |-> sub]]

\* the messages init_tracing panics with
MkdirFailed == "Failed to create parent log directory"
CreateFailed == "Failed to create log file"
SetGlobalFailed == "Failed to set global default"
UnwrapFailed == "called Result::unwrap() on an Err value"
InitFailed == "failed to set global default subscriber"

\* the WorkerGuard a file-backed call returns
Guard(n, path) == [writer |-> n, path |-> path]

----------------------------------------------------------------------------
(* init_tracing *)

\* what a call leaves behind
Effects(c, slot, fs, w, now) ==
    [call |-> c, global_default |-> slot, files |-> fs, writer |-> w, clock |-> now]

\* configure_console_logging, then None
configure_console_logging(c) ==
    LET r == set_global_default(global_default, c.n, "Console",
                                ConsoleSubscriber(c.config, env))
    IN  Effects(IF r.ok THEN Return(c, None) ELSE Panic(c, SetGlobalFailed),
                r.slot, files, writer, clock)

\* a faulty variant: a failed File::create is ignored and the call goes on without a file
file_writer_fallback(config, now, mkdir_ok, create_ok) ==
    LET filename == create_log_filename(config.log_dir, now)
    IN  IF ~mkdir_ok
        THEN [ok |-> FALSE, msg |-> MkdirFailed, filename |-> filename, created |-> FALSE,
              files |-> files]
        ELSE [ok |-> TRUE, msg |-> "", filename |-> filename, created |-> create_ok,
              files |-> IF create_ok
                        THEN [files EXCEPT ![filename] = [exists |-> TRUE, content |-> <<>>]]
                        ELSE files]

\* file_writer: the file name from the clock, its parent directory,
\* File::create (which truncates); either failure panics
file_writer(config, now, mkdir_ok, create_ok) ==
    LET filename == create_log_filename(config.log_dir, now)
    IN  IF ~mkdir_ok
        THEN [ok |-> FALSE, msg |-> MkdirFailed, filename |-> filename, created |-> FALSE,
              files |-> files]
        ELSE IF ~create_ok
        THEN [ok |-> FALSE, msg |-> CreateFailed, filename |-> filename, created |-> FALSE,
              files |-> files]
        ELSE [ok |-> TRUE, msg |-> "", filename |-> filename, created |-> TRUE,
              files |-> [files EXCEPT ![filename] = [exists |-> TRUE, content |-> <<>>]]]

\* a faulty variant: configure_file_logging returns None
FileResultNone(n, path) == None

\* what configure_file_logging and configure_combined_logging return
FileResult(n, path) == Some(Guard(n, path))

\* a faulty variant: the subscriber is installed before the file is made
configure_on_writer_install_first(c, mode, sub, now, mkdir_ok, create_ok) ==
    LET r == set_global_default(global_default, c.n, mode, sub)
        fw == file_writer(c.config, now, mkdir_ok, create_ok)
        c1 == [c EXCEPT !.filename = fw.filename, !.created = fw.created]
    IN  IF ~r.ok THEN Effects(Panic(c, SetGlobalFailed), global_default, files, writer, clock)
        ELSE IF ~fw.ok THEN Effects(Panic(c1, fw.msg), r.slot, fw.files, writer, now)
        ELSE Effects(Return(c1, FileResult(c.n, fw.filename)), r.slot, fw.files,
                     NonBlockingFinish(c.n, fw.filename, c.config.lossy_file), now)

\* the installed writer, after another call has made (and truncated) a file:
\* clobbered records that it was the writer's own file
AfterCreate(w, fw) ==
    IF w.active /\ fw.created /\ fw.filename = w.path
    THEN [w EXCEPT !.clobbered = TRUE] ELSE w

\* configure_file_logging / configure_combined_logging: file_writer first,
\* then the subscriber on the non-blocking writer is installed, Some(guard).
\* A writer whose call panics is dropped in the unwinding, unused.
configure_on_writer(c, mode, sub, now, mkdir_ok, create_ok) ==
    LET fw == file_writer(c.config, now, mkdir_ok, create_ok)
        c1 == [c EXCEPT !.filename = fw.filename, !.created = fw.created]
        r == set_global_default(global_default, c.n, mode, sub)
    IN  IF ~fw.ok THEN Effects(Panic(c1, fw.msg), global_default, fw.files, writer, now)
        ELSE IF ~r.ok
        THEN Effects(Panic(c1, SetGlobalFailed), r.slot, fw.files, AfterCreate(writer, fw), now)
        ELSE Effects(Return(c1, FileResult(c.n, fw.filename)), r.slot, fw.files,
                     NonBlockingFinish(c.n, fw.filename, c.config.lossy_file), now)

configure_file_logging(c, now, mkdir_ok, create_ok) ==
    configure_on_writer(c, "File", FileSubscriber(c.config, env), now, mkdir_ok, create_ok)

configure_combined_logging(c, now, mkdir_ok, create_ok) ==
    configure_on_writer(c, "ConsoleAndFile", CombinedSubscriber(c.config, env),
                        now, mkdir_ok, create_ok)

NoFeatureWarning == "Jaeger tracing is not enabled"

\* a faulty variant: the Jaeger arm does not wait
JaegerArmNoWait(c) ==
    Effects([c EXCEPT !.pc = "init_jaeger"], global_default, files, writer, clock)

\* the JaegerLive arm up to its first blocking point
JaegerArm(c) ==
    IF feature_jaeger
    THEN Effects([c EXCEPT !.pc = "wait_for_jaeger"], global_default, files, writer, clock)
    ELSE Effects(Return(c, None), global_default, files, writer, clock)

\* a faulty variant: the File arm runs the console procedure
init_tracing_file_as_console(c, now, mkdir_ok, create_ok) ==
    CASE c.mode = "Console" -> configure_console_logging(c)
      [] c.mode = "File" -> configure_console_logging(c)
      [] c.mode = "ConsoleAndFile" -> configure_combined_logging(c, now, mkdir_ok, create_ok)
      [] OTHER -> JaegerArm(c)

\* the match of init_tracing
init_tracing(c, now, mkdir_ok, create_ok) ==
    CASE c.mode = "Console" -> configure_console_logging(c)
      [] c.mode = "File" -> configure_file_logging(c, now, mkdir_ok, create_ok)
      [] c.mode = "ConsoleAndFile" -> configure_combined_logging(c, now, mkdir_ok, create_ok)
      [] OTHER -> JaegerArm(c)

FileBacked(mode) == mode \in {"File", "ConsoleAndFile"}

\* a call of init_tracing(config); the file-backed arms read the clock and
\* meet the file system's answers
InitTracing(config) ==
    /\ ~Running
    /\ ncalls < MaxCalls
    /\ ncalls' = ncalls + 1
    /\ \E now \in (IF FileBacked(config.tracing_mode) THEN clock..MaxClock ELSE {clock}),
          mkdir_ok \in (IF FileBacked(config.tracing_mode) THEN BOOLEAN ELSE {TRUE}),
          create_ok \in (IF FileBacked(config.tracing_mode) THEN BOOLEAN ELSE {TRUE}) :
         /\ mkdir_ok \/ create_ok
         /\ LET c == [n |-> ncalls + 1, mode |-> config.tracing_mode, config |-> config,
                      pc |-> "init_tracing", outcome |-> "running", panic |-> "",
                      result |-> None,
                      filename |-> create_log_filename("", 0), created |-> FALSE,
                      slot_at_start |-> global_default.set]
                e == init_tracing(c, now, mkdir_ok, create_ok)
            IN  /\ call' = e.call
                /\ global_default' = e.global_default
                /\ nwrites' = IF e.global_default # global_default
                              THEN nwrites + 1 ELSE nwrites
                /\ files' = e.files
                /\ writer' = e.writer
                /\ clock' = e.clock
    /\ stdout' = IF config.tracing_mode = "JaegerLive" /\ ~feature_jaeger
                 THEN stdout \cup {NoFeatureWarning} ELSE stdout
    /\ UNCHANGED << feature_jaeger, env, jaeger_up, tracer_provider, emitted, console,
                    file_passed, exported, pre_release,
                    filter_call >>

\* wait_for_jaeger: one pass of the connect loop
WaitForJaeger ==
    /\ call.pc = "wait_for_jaeger"
    /\ IF Endpoint(call.config.jaeger_hostname, JAEGER_UI_PORT) \in jaeger_up
       THEN /\ stdout' = stdout \cup {"Found running Jaeger instance!"}
            /\ call' = [call EXCEPT !.pc = "init_jaeger"]
       ELSE /\ stdout' = stdout \cup {"Waiting for Jaeger to start..."}
            /\ call' = call
    /\ UNCHANGED << feature_jaeger, env, clock, jaeger_up, files, global_default,
                    tracer_provider, ncalls, nwrites, writer, emitted, console,
                    file_passed, exported, pre_release,
                    filter_call >>

\* init_jaeger: the agent pipeline (install_simple().unwrap()), then init()
InitJaeger ==
    /\ call.pc = "init_jaeger"
    /\ stdout' = stdout \cup {"Initializing tracing for live streaming to Jaeger."}
    /\ \E pipeline_ok \in BOOLEAN :
         IF ~pipeline_ok
         THEN /\ call' = Panic(call, UnwrapFailed)
              /\ UNCHANGED << global_default, nwrites, tracer_provider,
                    filter_call >>
         ELSE LET r == set_global_default(global_default, call.n, "JaegerLive",
                                          JaegerSubscriber(call.config, env))
              IN  /\ tracer_provider' =
                        Endpoint(call.config.jaeger_hostname, DEFAULT_JAEGER_PORT)
                  /\ global_default' = r.slot
                  /\ nwrites' = IF r.ok THEN nwrites + 1 ELSE nwrites
                  /\ call' = IF r.ok THEN Return(call, None) ELSE Panic(call, InitFailed)
    /\ UNCHANGED << feature_jaeger, env, clock, jaeger_up, files, ncalls, writer,
                    emitted, console, file_passed, exported, pre_release,
                    filter_call >>

----------------------------------------------------------------------------
(* Events through the installed subscriber *)

\* NonBlocking::write: try_send when lossy (a full channel drops the line),
\* send otherwise; Err when the worker has gone
NonBlockingWrite(w, id) ==
    IF w.worker = "exited" \/ Len(w.queue) >= QueueCap THEN w
    ELSE [w EXCEPT !.queue = Append(w.queue, id)]

\* a non-lossy send waits for room in the channel
SendBlocks(w) == ~w.lossy /\ w.worker # "exited" /\ Len(w.queue) >= QueueCap

\* the application emits an event of this kind
Emit(kind) ==
    /\ global_default.set
    /\ Len(emitted) < MaxEvents
    /\ LET id == Len(emitted) + 1
           sub == global_default.subscriber
           on == SubscriberEnabled(sub, kind)
           dests == IF on THEN Destinations(sub) ELSE {}
           to_file == "non_blocking" \in dests
           w == IF to_file THEN NonBlockingWrite(writer, id) ELSE writer
       IN  /\ to_file => ~SendBlocks(writer)
           /\ emitted' = Append(emitted, kind)
           /\ console' = IF "stdout" \in dests THEN console \cup {id} ELSE console
           /\ file_passed' = IF to_file THEN file_passed \cup {id} ELSE file_passed
           /\ exported' = IF dests \ {"stdout", "non_blocking"} # {}
                          THEN exported \cup {id} ELSE exported
           /\ writer' = w
           /\ pre_release' = IF w # writer /\ writer.guard = "held"
                             THEN pre_release \cup {id} ELSE pre_release
    /\ UNCHANGED << feature_jaeger, env, clock, jaeger_up, files, global_default,
                    tracer_provider, call, ncalls, nwrites, stdout,
                    filter_call >>

\* Worker::work for one message: a line is written to the file, Shutdown
\* flushes and ends the loop; an io::Error loses the line
WorkerStep(w, fs, io_ok) ==
    LET msg == Head(w.queue)
    IN  IF msg = Shutdown
        THEN [writer |-> [w EXCEPT !.queue = Tail(w.queue), !.worker = "flushed"], files |-> fs]
        ELSE IF io_ok
        THEN [writer |-> [w EXCEPT !.queue = Tail(w.queue), !.offset = w.offset + 1],
              files |-> [fs EXCEPT ![w.path].content = WriteAt(@, w.offset, msg)]]
        ELSE [writer |-> [w EXCEPT !.queue = Tail(w.queue), !.io_error = TRUE], files |-> fs]

\* the worker thread receives the next message
WorkerRecv ==
    /\ writer.worker = "running"
    /\ writer.queue # <<>>
    /\ \E io_ok \in BOOLEAN :
         LET r == WorkerStep(writer, files, io_ok)
         IN  /\ writer' = r.writer
             /\ files' = r.files
    /\ UNCHANGED << feature_jaeger, env, clock, jaeger_up, global_default,
                    tracer_provider, call, ncalls, nwrites, stdout, emitted, console,
                    file_passed, exported, pre_release,
                    filter_call >>

\* the worker thread ends once the guard has gone: shutdown.recv() returns
WorkerExit ==
    /\ writer.worker = "flushed"
    /\ writer.guard = "released"
    /\ writer' = [writer EXCEPT !.worker = "exited", !.queue = <<>>]
    /\ UNCHANGED << feature_jaeger, env, clock, jaeger_up, files, global_default,
                    tracer_provider, call, ncalls, nwrites, stdout, emitted, console,
                    file_passed, exported, pre_release,
                    filter_call >>

\* WorkerGuard::drop, first half: send_timeout(Msg::Shutdown, 100 ms)
DropSend(w) ==
    IF Len(w.queue) < QueueCap
    THEN [w EXCEPT !.queue = Append(w.queue, Shutdown), !.guard = "awaiting"]
    ELSE [w EXCEPT !.guard = "released", !.timed_out = TRUE]

\* WorkerGuard::drop, second half: shutdown.send_timeout((), 1000 ms)
DropWait(w) ==
    IF w.worker = "flushed"
    THEN [w EXCEPT !.guard = "released"]
    ELSE [w EXCEPT !.guard = "released", !.timed_out = TRUE]

\* the caller releases the guard init_tracing returned
WorkerGuardDrop ==
    /\ writer.guard \in {"held", "awaiting"}
    /\ writer' = IF writer.guard = "held" THEN DropSend(writer) ELSE DropWait(writer)
    /\ UNCHANGED << feature_jaeger, env, clock, jaeger_up, files, global_default,
                    tracer_provider, call, ncalls, nwrites, stdout, emitted, console,
                    file_passed, exported, pre_release,
                    filter_call >>

----------------------------------------------------------------------------
(* The environment *)

\* a Jaeger instance starts or stops listening on its web UI port; only
\* wait_for_jaeger reads this, so it is tracked while a call is waiting
CollectorStart ==
    /\ call.pc = "wait_for_jaeger"
    /\ \E h \in Hostnames :
         /\ Endpoint(h, JAEGER_UI_PORT) \notin jaeger_up
         /\ jaeger_up' = jaeger_up \cup {Endpoint(h, JAEGER_UI_PORT)}
    /\ UNCHANGED << feature_jaeger, env, clock, files, global_default,
                    tracer_provider, call, ncalls, nwrites, stdout, writer, emitted,
                    console, file_passed, exported, pre_release,
                    filter_call >>

CollectorStop ==
    /\ call.pc = "wait_for_jaeger"
    /\ \E h \in Hostnames :
         /\ Endpoint(h, JAEGER_UI_PORT) \in jaeger_up
         /\ jaeger_up' = jaeger_up \ {Endpoint(h, JAEGER_UI_PORT)}
    /\ UNCHANGED << feature_jaeger, env, clock, files, global_default,
                    tracer_provider, call, ncalls, nwrites, stdout, writer, emitted,
                    console, file_passed, exported, pre_release,
                    filter_call >>

----------------------------------------------------------------------------

\* the public env_filter, called on its own
EnvFilter(config) ==
    /\ ~filter_call.called
    /\ filter_call' = [called |-> TRUE, config |-> config, env |-> env,
                       result |-> env_filter(config, env)]
    /\ UNCHANGED << feature_jaeger, env, clock, jaeger_up, files, global_default,
                    tracer_provider, call, ncalls, nwrites, stdout, writer, emitted,
                    console, file_passed, exported, pre_release >>

----------------------------------------------------------------------------
(* Specifications *)

\* the whole program
Next ==
    \/ \E config \in TracingConfig(feature_jaeger) : InitTracing(config)
    \/ WaitForJaeger
    \/ InitJaeger
    \/ \E kind \in EventKinds : Emit(kind)
    \/ WorkerRecv
    \/ WorkerExit
    \/ WorkerGuardDrop
    \/ CollectorStart
    \/ CollectorStop

Spec == Init /\ [][Next]_vars

\* initialization and the routing of events in a build with every feature:
\* every configuration with the default lossy_file, the application
\* emitting events; the writer's thread and lossy_file are left to WriterSpec
InitConfigs == {c \in TracingConfig(feature_jaeger) : c.lossy_file = DefaultConfig.lossy_file}

NextInit ==
    \/ \E config \in InitConfigs : InitTracing(config)
    \/ WaitForJaeger
    \/ InitJaeger
    \/ \E kind \in EventKinds : Emit(kind)
    \/ CollectorStart
    \/ CollectorStop

InitSpec == (\E e \in EnvChoices : Start(e, {TRUE})) /\ [][NextInit]_vars

\* initialization alone, the calling thread being scheduled: it goes round
\* the loop of wait_for_jaeger, and on to init_jaeger, as long as it can
NextLive ==
    \/ \E config \in TracingConfig(feature_jaeger) : InitTracing(config)
    \/ WaitForJaeger
    \/ InitJaeger
    \/ CollectorStart
    \/ CollectorStop

LiveSpec == Init /\ [][NextLive]_vars /\ WF_vars(WaitForJaeger) /\ WF_vars(InitJaeger)

\* the non-blocking writer: calls with the default configuration or its
\* file-backed variations, events the filter lets through, the worker
\* thread, and the release of the guard
WriterConfigs ==
    {[DefaultConfig EXCEPT !.tracing_mode = m, !.lossy_file = l] :
        m \in {"File", "ConsoleAndFile"}, l \in BOOLEAN} \cup {DefaultConfig}

WriterEvents == {[target |-> "app", level |-> WARN]}

NextWriter ==
    \/ \E config \in WriterConfigs : InitTracing(config)
    \/ \E kind \in WriterEvents : Emit(kind)
    \/ WorkerRecv
    \/ WorkerExit
    \/ WorkerGuardDrop

WriterSpec == (\E e \in EnvChoices : Start(e, {FALSE})) /\ [][NextWriter]_vars

\* env_filter as a function: every environment and every config.env_filter
\* of up to MaxDirectives segments
FilterOptions == {None} \cup {Some(f) : f \in FilterStrings}

NextFilter ==
    \E f \in FilterOptions : EnvFilter([DefaultConfig EXCEPT !.env_filter = f])

FilterSpec == (\E e \in FilterOptions : Start(e, {FALSE})) /\ [][NextFilter]_vars

----------------------------------------------------------------------------
(* Properties *)

Finished == call.pc = "done" /\ call.n > 0
Returned == Finished /\ call.outcome = "returned"
Panicked == Finished /\ call.outcome = "panicked"
InstalledByCall == global_default.set /\ global_default.by = call.n

\* the destinations of each mode's row
DestRow(mode) ==
    CASE mode = "Console" -> {"stdout"}
      [] mode = "File" -> {"non_blocking"}
      [] mode = "ConsoleAndFile" -> {"stdout", "non_blocking"}
      [] mode = "JaegerLive" -> {"stdout", "jaeger_agent"}
      [] OTHER -> {}

KindsOf(sub, kind) == {i \in 1..Len(sub) : sub[i].kind = kind}

\* C1: the subscriber slot is written at most once. Once it is set no step
\* changes it; a call that began with the slot empty and returns has
\* installed its own mode's subscriber; a call that began with the slot set
\* ends in a panic, and when it got as far as its install step the panic is
\* that of the install.
C1_WriteOnce ==
    [][ /\ nwrites' <= 1
        /\ global_default.set => global_default' = global_default
        /\ (call' # call /\ call'.pc = "done") =>
              /\ call'.slot_at_start =>
                    /\ call'.outcome = "panicked"
                    /\ call'.panic \in {SetGlobalFailed, InitFailed, UnwrapFailed,
                                        MkdirFailed, CreateFailed}
                    /\ call'.panic \in {MkdirFailed, CreateFailed} => ~call'.created
              /\ (~call'.slot_at_start /\ call'.outcome = "returned") =>
                    /\ ~global_default.set
                    /\ global_default'.set
                    /\ global_default'.by = call'.n
                    /\ global_default'.mode = call'.mode
                    /\ nwrites' = 1
      ]_vars

\* a second call, in another mode, has failed at its install step and the
\* first call's subscriber is still the installed one
C1_Witness ==
    /\ Panicked
    /\ call.n = 2
    /\ call.slot_at_start
    /\ call.panic = SetGlobalFailed
    /\ global_default.by = 1
    /\ global_default.mode # call.mode
    /\ nwrites = 1

\* C2: a call that returns hands back Some(guard) exactly in the File and
\* ConsoleAndFile modes, None in Console and JaegerLive; the guard is that of
\* the writer this call started on the log file this call created.
C2_GuardIffFileBacked ==
    Returned =>
        /\ call.result.some <=> FileBacked(call.mode)
        /\ call.mode \in {"Console", "JaegerLive"} => call.result = None
        /\ FileBacked(call.mode) =>
              /\ call.result.val = Guard(call.n, call.filename)
              /\ call.created
              /\ files[call.filename].exists
              /\ writer.active
              /\ writer.id = call.n
              /\ writer.path = call.filename

\* a ConsoleAndFile call has returned its guard
C2_Witness ==
    /\ Returned
    /\ call.mode = "ConsoleAndFile"
    /\ call.result = Some(Guard(call.n, writer.path))

\* C3: in the file-backed modes a failure to make the directory or the file
\* ends the call in a panic, with no guard and no subscriber installed by
\* it; a file-backed call that has returned has made its file and installed
\* a subscriber that writes to the non-blocking file writer.
C3_NoPartialSuccess ==
    (Finished /\ FileBacked(call.mode)) =>
        /\ ~call.created =>
              /\ call.outcome = "panicked"
              /\ ~call.result.some
              /\ ~InstalledByCall
              /\ ~call.slot_at_start => ~global_default.set
        /\ call.outcome = "returned" =>
              /\ call.created
              /\ InstalledByCall
              /\ "non_blocking" \in Destinations(global_default.subscriber)
              /\ writer.active /\ writer.id = call.n

\* File::create has failed in a File call made with the slot empty
C3_Witness ==
    /\ Panicked
    /\ call.mode = "File"
    /\ call.panic = CreateFailed
    /\ ~call.slot_at_start
    /\ ~global_default.set
    /\ ~writer.active

\* C5: the ConsoleAndFile subscriber has one EnvFilter layer over the stdout
\* and the file layer; an event emitted through it has gone to both layers
\* when that filter enables it and to neither otherwise; both layers have
\* the same json setting.
C5_SharedFilter ==
    (global_default.set /\ global_default.mode = "ConsoleAndFile") =>
        LET sub == global_default.subscriber
            f == KindsOf(sub, "env_filter")
        IN  /\ Cardinality(f) = 1
            /\ console = file_passed
            /\ \A i \in 1..Len(emitted) :
                  i \in console <=>
                      \A k \in f : Enabled(sub[k].directives, emitted[i])
            /\ \A a \in KindsOf(sub, "fmt"), b \in KindsOf(sub, "fmt") :
                  sub[a].json = sub[b].json

\* of two events through the ConsoleAndFile subscriber the filter has let
\* one through, to both layers, and stopped the other
C5_Witness ==
    /\ global_default.set
    /\ global_default.mode = "ConsoleAndFile"
    /\ Len(emitted) = 2
    /\ Cardinality(console) = 1
    /\ console = file_passed

\* C9: the installed subscriber is the one of the installing call's mode:
\* its output layers are exactly the mode's row (stdout; the non-blocking
\* writer; both; stdout and the Jaeger exporter), one layer each, under one
\* filter; events go nowhere outside the row; the formatters of Console,
\* File and ConsoleAndFile report spans at their close only.
C9_TopologyByMode ==
    /\ Returned => (InstalledByCall /\ global_default.mode = call.mode)
    /\ global_default.set =>
          LET sub == global_default.subscriber
              mode == global_default.mode
              out == {i \in 1..Len(sub) : sub[i].kind # "env_filter"}
          IN  /\ Destinations(sub) = DestRow(mode)
              /\ Cardinality(out) = Cardinality(DestRow(mode))
              /\ Cardinality(KindsOf(sub, "env_filter")) = 1
              /\ \A i \in out : sub[i].kind = "fmt" <=> sub[i].dest # "jaeger_agent"
              /\ mode # "JaegerLive" =>
                    \A i \in KindsOf(sub, "fmt") : sub[i].span_events = "CLOSE"
              /\ console # {} => "stdout" \in DestRow(mode)
              /\ file_passed # {} => "non_blocking" \in DestRow(mode)
              /\ exported # {} => "jaeger_agent" \in DestRow(mode)
    /\ ~global_default.set => (console = {} /\ file_passed = {} /\ exported = {})

\* an event has gone through the File subscriber to the file layer alone
C9_Witness ==
    /\ global_default.set
    /\ global_default.mode = "File"
    /\ file_passed # {}
    /\ console = {}
    /\ exported = {}

\* C7 as the specification states it: a build without the jaeger feature
\* accepts the JaegerLive mode, and a call in that mode prints the warning,
\* installs nothing and returns None.
C7_WarningWhenCompiledOut ==
    ~feature_jaeger =>
        /\ "JaegerLive" \in TracingMode(feature_jaeger)
        /\ (Finished /\ call.mode = "JaegerLive") =>
              /\ NoFeatureWarning \in stdout
              /\ call.outcome = "returned"
              /\ call.result = None
              /\ ~InstalledByCall

\* the implementation default of EnvFilter, as a filter string
DefaultFilter == <<Seg("error", NoEq)>>

\* a segment in the form Display writes: a level in lower case, or
\* target=level with the level in lower case
CanonicalSeg(seg) ==
    /\ ParseDirective(seg) # Invalid
    /\ IF seg.rhs = NoEq THEN seg.lhs = LevelName(ParseLevel(seg.lhs))
       ELSE seg.rhs = LevelName(ParseLevel(seg.rhs))

\* a filter string in the form Display writes: canonical segments, one per
\* target, the more specific target first
CanonicalFilter(s) ==
    /\ s # <<>>
    /\ \A i \in 1..Len(s) : CanonicalSeg(s[i])
    /\ \A i \in 1..Len(s), j \in 1..Len(s) :
          i < j => MoreSpecific(ParseDirective(s[i]), ParseDirective(s[j]))

\* the segments of s that parse, and the last of them for each target
ValidAt(s) == {i \in 1..Len(s) : ParseDirective(s[i]) # Invalid}
LastFor(s) ==
    {i \in ValidAt(s) :
        \A j \in ValidAt(s) :
            ParseDirective(s[j]).target = ParseDirective(s[i]).target => j <= i}

\* C4, as the specification states it: Some(f) gives f; None gives the
\* environment variable's text as it stands, or the default when it is unset.
C4_Verbatim ==
    filter_call.called =>
        filter_call.result =
            IF filter_call.config.env_filter.some THEN filter_call.config.env_filter.val
            ELSE IF filter_call.env.some THEN filter_call.env.val
            ELSE DefaultFilter

\* C4: Some(f) gives f as it stands, whatever the environment. None with the
\* variable unset gives the default, "error". None with the variable set to
\* s gives the canonical rendering of s: the default when no segment of s
\* parses, otherwise one canonical segment for each target named by a
\* segment that parses, carrying the level of the last such segment, the
\* more specific target first; it is s itself when s is already in that
\* form. The call leaves the environment as it was.
C4_Canonical ==
    filter_call.called =>
        LET f == filter_call.config.env_filter
            e == filter_call.env
            r == filter_call.result
        IN  /\ f.some => r = f.val
            /\ (~f.some /\ ~e.some) => r = DefaultFilter
            /\ (~f.some /\ e.some) =>
                  /\ CanonicalFilter(r)
                  /\ ValidAt(e.val) = {} => r = DefaultFilter
                  /\ ValidAt(e.val) # {} =>
                        {ParseDirective(r[k]) : k \in 1..Len(r)}
                            = {ParseDirective(e.val[i]) : i \in LastFor(e.val)}
                  /\ CanonicalFilter(e.val) => r = e.val
            /\ env = filter_call.env

\* the variable is set to "debug,core=trace", config.env_filter is None, and
\* the result is "core=trace,debug"
C4_Witness ==
    /\ filter_call.called
    /\ ~filter_call.config.env_filter.some
    /\ filter_call.env = Some(<<Seg("debug", NoEq), Seg("core", "trace")>>)
    /\ filter_call.result = <<Seg("core", "trace"), Seg("debug", NoEq)>>

\* the writer is non-lossy and the release of its guard has completed
ReleasedNonLossy == writer.active /\ ~writer.lossy /\ writer.guard = "released"

AllWritten == pre_release \subseteq Lines(files[writer.path].content)

\* C8: with lossy_file = false, once the release of the guard has completed,
\* every event the writer accepted before the release is in the log file.
C8_AllPresentAfterRelease == ReleasedNonLossy => AllWritten

\* C10: a file-backed call makes its file before it tries to install. A call
\* that has started the writer or reached the install step has made (and
\* emptied) the file at its path; when the install then fails the file is
\* empty all the same and the subscriber installed earlier stays as it was.
C10_FileBeforeInstall ==
    [][ (call' # call /\ call'.pc = "done" /\ FileBacked(call'.mode)) =>
            /\ (call'.outcome = "returned" \/ call'.panic = SetGlobalFailed) =>
                  /\ call'.created
                  /\ files'[call'.filename] = [exists |-> TRUE, content |-> <<>>]
            /\ call'.panic = SetGlobalFailed =>
                  /\ global_default.set
                  /\ global_default' = global_default
                  /\ writer'.id = writer.id
                  /\ writer'.clobbered = (writer.clobbered \/ call'.filename = writer.path)
            /\ (call'.slot_at_start /\ call'.panic \notin {MkdirFailed, CreateFailed}) =>
                  call'.panic = SetGlobalFailed
      ]_vars

\* a second call in the same second has failed at its install step; the
\* first call's subscriber is installed, and the first call's file, to which
\* its writer had written, is empty
C10_Witness ==
    /\ Panicked
    /\ call.n = 2
    /\ call.panic = SetGlobalFailed
    /\ call.filename = writer.path
    /\ global_default.by = 1
    /\ writer.id = 1
    /\ writer.offset > 0
    /\ files[writer.path].content = <<>>

Waiting == call.pc = "wait_for_jaeger"
JaegerReachable == Endpoint(call.config.jaeger_hostname, JAEGER_UI_PORT) \in jaeger_up

\* the subscriber of init_jaeger: one filter, the stdout formatter and the
\* exporter to the agent at the configured host
JaegerComposite(sub) ==
    /\ Destinations(sub) = {"stdout", "jaeger_agent"}
    /\ Cardinality(KindsOf(sub, "env_filter")) = 1
    /\ Cardinality(KindsOf(sub, "fmt")) = 1
    /\ Cardinality(KindsOf(sub, "opentelemetry")) = 1
    /\ \A i \in KindsOf(sub, "opentelemetry") : sub[i].endpoint = tracer_provider

====
